---- MODULE Spec2Model ----
(***************************************************************************)
(* Model of scripts/remove_sourced.py: the line-oriented transformer that  *)
(* removes "Sourced" aliases, test cases, sections, assertions and         *)
(* declarations from C++ test sources and collapses ", false, false,".    *)
(*                                                                         *)
(* A line is a sequence of lexemes (strings); the text of the line is the  *)
(* concatenation of its lexemes.  The regular expressions of the script    *)
(* are evaluated over the lexemes.  Document positions are 0-based, as in  *)
(* the script; lexeme positions inside a line are 1-based.                 *)
(***************************************************************************)
EXTENDS Integers, Sequences, FiniteSets, TLC

VARIABLES
    lines,      \* process_lines: the list being scanned
    i,          \* process_lines: the scan index
    result,     \* process_lines: the lines emitted so far
    src,        \* history: for each emitted line, the index it came from
    dropped,    \* history: the indices removed so far
    last,       \* history: the last iteration [rule, at, next, outlen]
    pass,       \* 1: first run, 2: run again on the first run's output
    input,      \* history: the document the first run was given
    pc,         \* "scan" | "done" | the position of main
    argv,       \* main: sys.argv[1:]
    fs,         \* the file system: path -> [kind, content]
    fs0,        \* history: the file system at the start
    k,          \* main: index of the current path
    changed,    \* main: the changed counter
    log,        \* main: the report lines printed
    calls,      \* history: one record per call of process_file
    status      \* the exit status of the run ("none" while running)

scanVars == <<lines, i, result, src, dropped, last, pass, input>>
mainVars == <<argv, fs, fs0, k, changed, log, calls, status>>
vars == <<lines, i, result, src, dropped, last, pass, input, pc,
          argv, fs, fs0, k, changed, log, calls, status>>

----------------------------------------------------------------------------
(* Bounds of the model *)

MaxShort == 2
MaxTail == 6
MaxBody == 5
MaxArgs == 3

(* range(i, min(i + 6, len(lines))) *)
LookaheadLines == 6

----------------------------------------------------------------------------
(* Lexemes *)

WS == {" ", "  ", "\n"}

Min(a, b) == IF a < b THEN a ELSE b

Line(ls, n) == ls[n + 1]

RECURSIVE SkipWS(_, _)
SkipWS(line, p) ==
    IF p <= Len(line) /\ line[p] \in WS THEN SkipWS(line, p + 1) ELSE p

Tok(line, p) == IF p >= 1 /\ p <= Len(line) THEN line[p] ELSE "<eol>"

MatchAt(line, p, pat) ==
    /\ p >= 1
    /\ p + Len(pat) - 1 <= Len(line)
    /\ \A n \in 1..Len(pat) : line[p + n - 1] = pat[n]

Count(line, tok) == Cardinality({p \in 1..Len(line) : line[p] = tok})

Has(line, tok) == \E p \in 1..Len(line) : line[p] = tok

(* \w*[Ss]ourced\w* : a word holding "sourced" or "Sourced" *)
SourcedWords == {"Foo_sourced", "SourcedBar"}

(* "sourced... under re.IGNORECASE: the text after the quote starts with
   "sourced" in any casing *)
SourcedStrings == {"sourced", "Sourced", "SOURCED"}

----------------------------------------------------------------------------
(* The trigger patterns *)

(* re.match(r'\s*using \w*[Ss]ourced\w*\s*=', line) *)
IsSourcedAlias(line) ==
    LET a == SkipWS(line, 1)
        b == SkipWS(line, a + 3)
    IN  /\ Tok(line, a) = "using"
        /\ Tok(line, a + 1) = " "
        /\ Tok(line, a + 2) \in SourcedWords
        /\ Tok(line, b) = "="

(* re.match(r'\s*(TEMPLATE_)?TEST_CASE\s*\(', line) *)
IsTestCaseStart(line) ==
    LET a == SkipWS(line, 1)
        b == IF Tok(line, a) = "TEMPLATE_" THEN a + 1 ELSE a
        c == SkipWS(line, b + 1)
    IN  /\ Tok(line, b) = "TEST_CASE"
        /\ Tok(line, c) = "("

(* re.search(r'\[sourced\]', line) *)
HasTag(line) == Has(line, "[sourced]")

(* ')' in line *)
HasParen(line) == Has(line, ")")

(* mutant: the window is one line longer *)
RECURSIVE TagScan_sevenLines(_, _, _)
TagScan_sevenLines(ls, start, j) ==
    IF j >= Min(start + LookaheadLines + 1, Len(ls)) THEN FALSE
    ELSE IF HasTag(Line(ls, j)) THEN TRUE
    ELSE IF HasParen(Line(ls, j)) /\ j > start THEN FALSE
    ELSE TagScan_sevenLines(ls, start, j + 1)

(* for j in range(i, min(i + 6, len(lines))): ... *)
RECURSIVE TagScan(_, _, _)
TagScan(ls, start, j) ==
    IF j >= Min(start + LookaheadLines, Len(ls)) THEN FALSE
    ELSE IF HasTag(Line(ls, j)) THEN TRUE
    ELSE IF HasParen(Line(ls, j)) /\ j > start THEN FALSE
    ELSE TagScan(ls, start, j + 1)

is_sourced_test_case_multiline(ls, n) ==
    IF ~IsTestCaseStart(Line(ls, n)) THEN FALSE ELSE TagScan(ls, n, n)

(* re.match(r'\s*SECTION\s*\(\s*"sourced', line, re.IGNORECASE) *)
is_sourced_section(line) ==
    LET a == SkipWS(line, 1)
        b == SkipWS(line, a + 1)
        c == SkipWS(line, b + 1)
    IN  /\ Tok(line, a) \in {"SECTION", "section"}
        /\ Tok(line, b) = "("
        /\ Tok(line, c) = "\""
        /\ Tok(line, c + 1) \in SourcedStrings

(* re.search(r'(STATIC_REQUIRE|static_assert)\s*\(\s*(traits|G)::sourced\s*==', line) *)
IsSourcedAssert(line) ==
    \E p \in 1..Len(line) :
        LET b == SkipWS(line, p + 1)
            c == SkipWS(line, b + 1)
            d == SkipWS(line, c + 2)
        IN  /\ line[p] \in {"STATIC_REQUIRE", "static_assert"}
            /\ Tok(line, b) = "("
            /\ Tok(line, c) \in {"traits", "G"}
            /\ Tok(line, c + 1) = "::sourced"
            /\ Tok(line, d) = "=="

(* re.match(r'\s*\[\[maybe_unused\]\]\s+\w*[Ss]ourced\w*\b', line) *)
IsSourcedUnused(line) ==
    LET a == SkipWS(line, 1)
        b == SkipWS(line, a + 1)
    IN  /\ Tok(line, a) = "[[maybe_unused]]"
        /\ b > a + 1
        /\ Tok(line, b) \in SourcedWords

(* ', false, false,' and its replacement ', false,' *)
FalseFalse == <<",", " ", "false", ",", " ", "false", ",">>
OneFalse == <<",", " ", "false", ",">>

(* ', false, false,' in line *)
HasFalseFalse(line) == \E p \in 1..Len(line) : MatchAt(line, p, FalseFalse)

(* re.match of leading whitespace (captured) followed by 'false, false,' *)
StartsFalseFalse(line) ==
    MatchAt(line, SkipWS(line, 1), <<"false", ",", " ", "false", ",">>)

(* mutant: every occurrence is replaced (the count argument left out) *)
RECURSIVE ReplaceAllFrom(_, _)
ReplaceAllFrom(line, p) ==
    IF p > Len(line) THEN <<>>
    ELSE IF MatchAt(line, p, FalseFalse)
         THEN OneFalse \o ReplaceAllFrom(line, p + Len(FalseFalse))
         ELSE <<line[p]>> \o ReplaceAllFrom(line, p + 1)

Rewrite_all(line) ==
    IF HasFalseFalse(line) THEN ReplaceAllFrom(line, 1)
    ELSE IF StartsFalseFalse(line)
    THEN LET a == SkipWS(line, 1)
         IN  SubSeq(line, 1, a - 1) \o <<"false", ",">>
                \o SubSeq(line, a + 5, Len(line))
    ELSE line

(* lines 130-134: line.replace(', false, false,', ', false,', 1), or
   re.sub of the leading 'false, false,' by 'false,' keeping the captured
   leading whitespace, count=1 *)
Rewrite(line) ==
    IF HasFalseFalse(line)
    THEN LET p == CHOOSE q \in 1..Len(line) :
                    /\ MatchAt(line, q, FalseFalse)
                    /\ \A r \in 1..(q - 1) : ~MatchAt(line, r, FalseFalse)
         IN  SubSeq(line, 1, p - 1) \o OneFalse
                \o SubSeq(line, p + Len(FalseFalse), Len(line))
    ELSE IF StartsFalseFalse(line)
    THEN LET a == SkipWS(line, 1)
         IN  SubSeq(line, 1, a - 1) \o <<"false", ",">>
                \o SubSeq(line, a + 5, Len(line))
    ELSE line

----------------------------------------------------------------------------
(* The span finders *)

(* lines[i].rstrip().endswith(';') *)
RECURSIVE RStrip(_)
RStrip(line) ==
    IF Len(line) > 0 /\ line[Len(line)] \in WS
    THEN RStrip(SubSeq(line, 1, Len(line) - 1))
    ELSE line

(* mutant: the line is not right-trimmed first *)
EndsWithSemicolon_noStrip(line) == Len(line) > 0 /\ line[Len(line)] = ";"

EndsWithSemicolon(line) ==
    LET t == RStrip(line) IN Len(t) > 0 /\ t[Len(t)] = ";"

RECURSIVE AliasLoop(_, _)
AliasLoop(ls, n) ==
    IF n < Len(ls)
    THEN IF EndsWithSemicolon(Line(ls, n)) THEN n + 1 ELSE AliasLoop(ls, n + 1)
    ELSE n + 1

remove_multiline_alias(ls, start) == AliasLoop(ls, start)

RECURSIVE BlockLoop(_, _, _, _)
BlockLoop(ls, n, depth, found_open) ==
    IF n < Len(ls)
    THEN LET opens == Count(Line(ls, n), "{")
             closes == Count(Line(ls, n), "}")
             found == found_open \/ opens > 0
             d == IF found THEN depth + opens - closes ELSE depth
         IN  IF found /\ d <= 0 THEN n + 1 ELSE BlockLoop(ls, n + 1, d, found)
    ELSE Len(ls)

(* mutant: with no '{' ahead only the trigger line is removed *)
find_block_end_lineOnly(ls, start) ==
    IF \A n \in start..(Len(ls) - 1) : Count(Line(ls, n), "{") = 0
    THEN start + 1
    ELSE BlockLoop(ls, start, 0, FALSE)

find_block_end(ls, start) == BlockLoop(ls, start, 0, FALSE)

----------------------------------------------------------------------------
(* One iteration of the loop of process_lines, at index n < len(lines) *)

(* mutant: the assertion rule is tried before the section rule *)
Rule_assertFirst(ls, n) ==
    IF IsSourcedAlias(Line(ls, n)) THEN 1
    ELSE IF is_sourced_test_case_multiline(ls, n) THEN 2
    ELSE IF IsSourcedAssert(Line(ls, n)) THEN 4
    ELSE IF is_sourced_section(Line(ls, n)) THEN 3
    ELSE IF IsSourcedUnused(Line(ls, n)) THEN 5
    ELSE 6

(* The rule that fires: the if-chain of lines 102-134, in its order *)
Rule(ls, n) ==
    IF IsSourcedAlias(Line(ls, n)) THEN 1
    ELSE IF is_sourced_test_case_multiline(ls, n) THEN 2
    ELSE IF is_sourced_section(Line(ls, n)) THEN 3
    ELSE IF IsSourcedAssert(Line(ls, n)) THEN 4
    ELSE IF IsSourcedUnused(Line(ls, n)) THEN 5
    ELSE 6

(* The value of i at the next iteration *)
NextIndex(ls, n) ==
    LET r == Rule(ls, n)
    IN  IF r = 1 THEN remove_multiline_alias(ls, n)
        ELSE IF r \in {2, 3} THEN find_block_end(ls, n)
        ELSE n + 1

(* mutant: the first line of a sourced alias is kept (the continue is
   missing only from what follows it) *)
Emit_keepsAliasLine(ls, n) ==
    IF Rule(ls, n) \in {1, 6} THEN <<Rewrite(Line(ls, n))>> ELSE <<>>

(* mutant: a removed span leaves an empty line behind *)
Emit_placeholder(ls, n) ==
    IF Rule(ls, n) = 6 THEN <<Rewrite(Line(ls, n))>> ELSE <<<<"\n">>>>

(* What the iteration appends to result *)
Emit(ls, n) == IF Rule(ls, n) = 6 THEN <<Rewrite(Line(ls, n))>> ELSE <<>>

RECURSIVE ScanFrom(_, _)
ScanFrom(ls, n) ==
    IF n < Len(ls) THEN Emit(ls, n) \o ScanFrom(ls, NextIndex(ls, n)) ELSE <<>>

process_lines(ls) == ScanFrom(ls, 0)

----------------------------------------------------------------------------
(* The lines the documents are drawn from *)

Q == "\""

L_plain == <<"x", "\n">>
L_stmt == <<"x", ";", "\n">>
L_noeol == <<"x">>
L_open == <<"{", "\n">>
L_close == <<"}", "\n">>
L_nest == <<"  ", "{", " ", "{", " ", "}", " ", "}", "\n">>
L_paren == <<"  ", "REQUIRE", "(", "x", ")", ";", "\n">>
L_alias == <<"using", " ", "Foo_sourced", " ", "=", " ", "Bar", "<", "\n">>
L_alias1 == <<"using", " ", "SourcedBar", "=", " ", "Bar", ";", "\n">>
L_aliasFF == <<"using", " ", "Foo_sourced", " ", "=", " ", "Bar", "<", "true",
               ",", " ", "false", ",", " ", "false", ",", " ", "1", ">", ";", "\n">>
L_using == <<"using", " ", "Foo", " ", "=", " ", "Bar", ";", "\n">>
L_cont == <<"  ", "1", ",", " ", "2", ">", ";", "\n">>
L_tcs == <<"TEST_CASE", "(", Q, "x", Q, ",", " ", Q, "[sourced]", Q, ")", " ", "{", "\n">>
L_tcsnb == <<"TEST_CASE", "(", Q, "x", Q, ",", " ", Q, "[sourced]", Q, ")", "\n">>
L_tc == <<"TEST_CASE", "(", Q, "x", Q, ")", " ", "{", "\n">>
L_tc1 == <<"TEST_CASE", "(", Q, "x", Q, ")", " ", "{", " ", "}", "\n">>
L_tcAssert == <<"TEST_CASE", "(", Q, "x", Q, ")", " ", "{", " ", "static_assert", "(", "G",
                "::sourced", " ", "==", " ", "false", ")", ";", " ", "}", "\n">>
L_tco == <<"TEMPLATE_", "TEST_CASE", "(", Q, "x", Q, ",", "\n">>
L_tag == <<"  ", Q, "[sourced]", Q, ")", " ", "{", "\n">>
L_section == <<"  ", "SECTION", "(", Q, "sourced", " ", "foo", Q, ")", " ", "{", "\n">>
L_sectionCap == <<"SECTION", " ", "(", " ", Q, "Sourced", " ", "foo", Q, ")", " ", "{", " ", "}", "\n">>
L_sectionOther == <<"SECTION", "(", Q, "other", Q, ")", " ", "{", "\n">>
L_sectionAssert == <<"SECTION", "(", Q, "sourced", Q, ")", " ", "{", " ", "STATIC_REQUIRE",
                     "(", "traits", "::sourced", " ", "==", " ", "true", ")", ";", "\n">>
L_assert == <<"  ", "STATIC_REQUIRE", "(", "traits", "::sourced", " ", "==", " ", "false", ")", ";", "\n">>
L_assertG == <<"static_assert", " ", "(", " ", "G", "::sourced", "==", "false", ")", ";", "\n">>
L_unused == <<"  ", "[[maybe_unused]]", " ", "Foo_sourced", " ", "x", ";", "\n">>
L_ff == <<"make", "<", "Traits", "<", "true", ",", " ", "false", ",", " ", "false", ",",
          " ", "1", ">", ">", "\n">>
L_fff == <<"make", "<", "true", ",", " ", "false", ",", " ", "false", ",", " ", "false", ",",
           " ", "1", ">", "\n">>
L_ff2 == <<"A", ",", " ", "false", ",", " ", "false", ",", " ", "B", ",", " ", "false", ",",
           " ", "false", ",", " ", "C", "\n">>
L_cff == <<"false", ",", " ", "false", ",", " ", "Extra", ">", "\n">>
L_cffi == <<"  ", "false", ",", " ", "false", ",", " ", "Extra", ">", ";", "\n">>

AllLines ==
    {L_plain, L_stmt, L_noeol, L_open, L_close, L_nest, L_paren, L_alias, L_alias1,
     L_aliasFF, L_using, L_cont, L_tcs, L_tcsnb, L_tc, L_tc1, L_tcAssert, L_tco, L_tag,
     L_section,
     L_sectionCap, L_sectionOther, L_sectionAssert, L_assert, L_assertG, L_unused,
     L_ff, L_fff, L_ff2, L_cff, L_cffi}

SeqsUpTo(S, n) == UNION {[1..m -> S] : m \in 0..n}

(* every document of at most MaxShort lines *)
ShortDocs == SeqsUpTo(AllLines, MaxShort)

(* a test-case start line followed by up to MaxTail lines of argument list,
   body or sourced assertions *)
LookaheadDocs ==
    {<<h>> \o t : h \in {L_tco, L_tc},
                  t \in SeqsUpTo({L_plain, L_paren, L_tag, L_assert}, MaxTail)}

(* an optional line, a block opener, and up to MaxBody lines of braces and text *)
BlockDocs ==
    {p \o <<h>> \o b : p \in {<<>>, <<L_plain>>, <<L_tc1>>},
                       h \in {L_tcs, L_tcsnb, L_section},
                       b \in SeqsUpTo({L_open, L_close, L_plain}, MaxBody)}

Docs == ShortDocs \cup LookaheadDocs \cup BlockDocs

----------------------------------------------------------------------------
(* process_file and main *)

(* content.splitlines(keepends=True): a line ends after each "\n" *)
RECURSIVE SplitFrom(_, _)
SplitFrom(content, cur) ==
    IF content = <<>> THEN (IF cur = <<>> THEN <<>> ELSE <<cur>>)
    ELSE IF Head(content) = "\n"
         THEN <<Append(cur, "\n")>> \o SplitFrom(Tail(content), <<>>)
         ELSE SplitFrom(Tail(content), Append(cur, Head(content)))

splitlines(content) == SplitFrom(content, <<>>)

(* ''.join(new_lines) *)
RECURSIVE join(_)
join(ls) == IF ls = <<>> THEN <<>> ELSE Head(ls) \o join(Tail(ls))

(* mutant: the file is written in preview mode too *)
process_file_ignoresDryRun(fsys, path, dry_run) ==
    LET content == fsys[path].content
        new_content == join(process_lines(splitlines(content)))
        modified == new_content # content
    IN  [modified |-> modified,
         wrote |-> modified,
         fs |-> IF modified
                THEN [fsys EXCEPT ![path] = [kind |-> "file", content |-> new_content]]
                ELSE fsys]

(* process_file(file_path, dry_run): what it returns, the file system it
   leaves, and whether it opened the file for writing *)
process_file(fsys, path, dry_run) ==
    LET content == fsys[path].content
        new_content == join(process_lines(splitlines(content)))
        modified == new_content # content
        writes == modified /\ ~dry_run
    IN  [modified |-> modified,
         wrote |-> writes,
         fs |-> IF writes
                THEN [fsys EXCEPT ![path] = [kind |-> "file", content |-> new_content]]
                ELSE fsys]

Paths == {"a.cpp", "b.cpp"}
Flags == {"--dry-run", "--quiet"}

(* '--dry-run' in sys.argv *)
DryRun(args) == \E n \in 1..Len(args) : args[n] = "--dry-run"

(* [p for p in sys.argv[1:] if not p.startswith('--')] *)
PathsOf(args) == SelectSeq(args, LAMBDA a : a \notin Flags)

(* p.exists() *)
Exists(fsys, path) == fsys[path].kind # "missing"

FileDocs ==
    {<<L_plain>>, <<L_stmt, L_noeol>>, <<L_alias, L_cont, L_plain>>, <<L_ff>>, <<L_fff, L_plain>>}

FileStates ==
    {[kind |-> "missing", content |-> <<>>]}
    \cup {[kind |-> "file", content |-> join(d)] : d \in FileDocs}
    \cup {[kind |-> "unreadable", content |-> join(d)] : d \in {<<L_ff>>}}

----------------------------------------------------------------------------
(* Initial states *)

NoStep == [rule |-> 0, at |-> 0, next |-> 0, outlen |-> 0]

NoFiles == [p \in Paths |-> [kind |-> "missing", content |-> <<>>]]

InitScan ==
    /\ lines \in Docs
    /\ input = lines
    /\ i = 0
    /\ result = <<>>
    /\ src = <<>>
    /\ dropped = {}
    /\ last = NoStep
    /\ pass = 1
    /\ pc = "scan"
    /\ argv = <<>>
    /\ fs = NoFiles
    /\ fs0 = NoFiles
    /\ k = 0
    /\ changed = 0
    /\ log = <<>>
    /\ calls = <<>>
    /\ status = "none"

InitMain ==
    /\ lines = <<>>
    /\ input = <<>>
    /\ i = 0
    /\ result = <<>>
    /\ src = <<>>
    /\ dropped = {}
    /\ last = NoStep
    /\ pass = 1
    /\ pc = "main"
    /\ argv \in SeqsUpTo(Paths \cup Flags, MaxArgs)
    /\ fs \in [Paths -> FileStates]
    /\ fs0 = fs
    /\ k = 0
    /\ changed = 0
    /\ log = <<>>
    /\ calls = <<>>
    /\ status = "none"

----------------------------------------------------------------------------
(* process_lines, one loop iteration per step *)

Scanning == pc = "scan" /\ i < Len(lines)

(* the iteration at index i: i moves to NextIndex, result gains Emit *)
Iterate ==
    /\ i' = NextIndex(lines, i)
    /\ result' = result \o Emit(lines, i)
    /\ src' = src \o [n \in 1..Len(Emit(lines, i)) |-> i]
    /\ dropped' = IF Emit(lines, i) = <<>>
                  THEN dropped \cup (i..(Min(NextIndex(lines, i), Len(lines)) - 1))
                  ELSE dropped
    /\ last' = [rule |-> Rule(lines, i), at |-> i, next |-> NextIndex(lines, i),
                outlen |-> Len(result)]
    /\ UNCHANGED <<lines, pass, input, pc>>
    /\ UNCHANGED mainVars

(* 1. sourced type alias declarations *)
RemoveAlias ==
    /\ Scanning
    /\ Rule(lines, i) = 1
    /\ Iterate

(* 2. TEST_CASE / TEMPLATE_TEST_CASE blocks tagged [sourced] *)
RemoveTestCase ==
    /\ Scanning
    /\ Rule(lines, i) = 2
    /\ Iterate

(* 3. SECTION("sourced ...") blocks *)
RemoveSection ==
    /\ Scanning
    /\ Rule(lines, i) = 3
    /\ Iterate

(* 4. STATIC_REQUIRE / static_assert lines *)
RemoveAssert ==
    /\ Scanning
    /\ Rule(lines, i) = 4
    /\ Iterate

(* 5. [[maybe_unused]] declarations *)
RemoveUnused ==
    /\ Scanning
    /\ Rule(lines, i) = 5
    /\ Iterate

(* 6. the line is rewritten and appended *)
EmitLine ==
    /\ Scanning
    /\ Rule(lines, i) = 6
    /\ Iterate

(* while i < len(lines) fails: return result *)
Finish ==
    /\ pc = "scan"
    /\ i >= Len(lines)
    /\ pc' = "done"
    /\ UNCHANGED scanVars
    /\ UNCHANGED mainVars

(* the transformer is run again on its own output *)
Rerun ==
    /\ pc = "done"
    /\ pass = 1
    /\ lines' = result
    /\ i' = 0
    /\ result' = <<>>
    /\ src' = <<>>
    /\ dropped' = {}
    /\ last' = NoStep
    /\ pass' = 2
    /\ pc' = "scan"
    /\ UNCHANGED input
    /\ UNCHANGED mainVars

Next ==
    \/ RemoveAlias
    \/ RemoveTestCase
    \/ RemoveSection
    \/ RemoveAssert
    \/ RemoveUnused
    \/ EmitLine
    \/ Finish
    \/ Rerun

Spec == InitScan /\ [][Next]_vars

----------------------------------------------------------------------------
(* main, one path per step *)

(* if not paths: print usage; sys.exit(1) *)
Usage ==
    /\ pc = "main"
    /\ PathsOf(argv) = <<>>
    /\ log' = Append(log, <<"usage">>)
    /\ status' = "1"
    /\ pc' = "exit"
    /\ UNCHANGED <<argv, fs, fs0, k, changed, calls>>
    /\ UNCHANGED scanVars

(* changed = 0; for path_str in paths: *)
Begin ==
    /\ pc = "main"
    /\ PathsOf(argv) # <<>>
    /\ k' = 0
    /\ changed' = 0
    /\ pc' = "loop"
    /\ UNCHANGED <<argv, fs, fs0, log, calls, status>>
    /\ UNCHANGED scanVars

(* mutant: break instead of continue *)
SkipMissing_breaks ==
    /\ pc = "loop"
    /\ k < Len(PathsOf(argv))
    /\ ~Exists(fs, Line(PathsOf(argv), k))
    /\ log' = Append(log, <<"SKIP", Line(PathsOf(argv), k)>>)
    /\ k' = Len(PathsOf(argv))
    /\ UNCHANGED <<argv, fs, fs0, changed, calls, status, pc>>
    /\ UNCHANGED scanVars

(* if not p.exists(): print SKIP; continue *)
SkipMissing ==
    /\ pc = "loop"
    /\ k < Len(PathsOf(argv))
    /\ ~Exists(fs, Line(PathsOf(argv), k))
    /\ log' = Append(log, <<"SKIP", Line(PathsOf(argv), k)>>)
    /\ k' = k + 1
    /\ UNCHANGED <<argv, fs, fs0, changed, calls, status, pc>>
    /\ UNCHANGED scanVars

(* modified = process_file(p, dry_run=dry_run); print CHANGED or unchanged *)
ProcessPath ==
    /\ pc = "loop"
    /\ k < Len(PathsOf(argv))
    /\ fs[Line(PathsOf(argv), k)].kind = "file"
    /\ LET p == Line(PathsOf(argv), k)
           r == process_file(fs, p, DryRun(argv))
       IN  /\ fs' = r.fs
           /\ calls' = Append(calls, [at |-> k, path |-> p, before |-> fs[p].content,
                                      after |-> r.fs[p].content,
                                      modified |-> r.modified, wrote |-> r.wrote])
           /\ changed' = IF r.modified THEN changed + 1 ELSE changed
           /\ log' = Append(log, <<IF r.modified THEN "CHANGED" ELSE "unchanged", p>>)
    /\ k' = k + 1
    /\ UNCHANGED <<argv, fs0, status, pc>>
    /\ UNCHANGED scanVars

(* open(file_path) raises: nothing catches it, the run ends with a traceback *)
ReadFails ==
    /\ pc = "loop"
    /\ k < Len(PathsOf(argv))
    /\ fs[Line(PathsOf(argv), k)].kind = "unreadable"
    /\ status' = "1"
    /\ pc' = "exit"
    /\ UNCHANGED <<argv, fs, fs0, k, changed, log, calls>>
    /\ UNCHANGED scanVars

(* print Total changed; main returns, the interpreter exits with 0 *)
Total ==
    /\ pc = "loop"
    /\ k >= Len(PathsOf(argv))
    /\ log' = Append(log, <<"Total", changed, Len(PathsOf(argv))>>)
    /\ status' = "0"
    /\ pc' = "exit"
    /\ UNCHANGED <<argv, fs, fs0, k, changed, calls>>
    /\ UNCHANGED scanVars

NextMain ==
    \/ Usage
    \/ Begin
    \/ SkipMissing
    \/ ProcessPath
    \/ ReadFails
    \/ Total

SpecMain == InitMain /\ [][NextMain]_vars

----------------------------------------------------------------------------
(* Helpers of the properties *)

SetMin(S) == CHOOSE x \in S : \A y \in S : x <= y

Indices(ls) == 0..(Len(ls) - 1)

(* the document without its lines a..b (0-based, inclusive) *)
Without(ls, a, b) == SubSeq(ls, 1, a) \o SubSeq(ls, b + 2, Len(ls))

(* the line without its lexemes a..b *)
DeleteToks(line, a, b) == SubSeq(line, 1, a - 1) \o SubSeq(line, b + 1, Len(line))

BraceDelta(line) == Count(line, "{") - Count(line, "}")

RECURSIVE SumDelta(_, _, _)
SumDelta(ls, a, b) ==
    IF a > b THEN 0 ELSE BraceDelta(Line(ls, a)) + SumDelta(ls, a + 1, b)

(* the lines at or after n that contain a '{' *)
BraceLines(ls, n) == {m \in Indices(ls) : m >= n /\ Count(Line(ls, m), "{") > 0}

(* the lines on which the running count of '{' minus '}', taken from the
   first line at or after n that contains a '{', is zero or below *)
ClosingLines(ls, n) ==
    IF BraceLines(ls, n) = {} THEN {}
    ELSE LET f == SetMin(BraceLines(ls, n))
         IN  {m \in Indices(ls) : m >= f /\ SumDelta(ls, f, m) <= 0}

(* the right-trimmed text of the line ends with ';' *)
TrimmedEndsSemi(line) ==
    \E p \in 1..Len(line) : line[p] = ";" /\ \A q \in (p + 1)..Len(line) : line[q] \in WS

SemiLines(ls, n) == {m \in Indices(ls) : m >= n /\ TrimmedEndsSemi(Line(ls, m))}

----------------------------------------------------------------------------
(* C1 (as stated): process_lines is idempotent: running it on its own
   output gives that output back. *)
C1_Idempotent == (pass = 2 /\ pc = "done") => result = lines

(* a line of the document is still changed by the positional rewrite, or a
   test-case start line of it finds [sourced] in its lookahead window *)
C1_StillTriggers(ls) ==
    \E n \in Indices(ls) :
        \/ Rewrite(Line(ls, n)) # Line(ls, n)
        \/ is_sourced_test_case_multiline(ls, n)

(* C1 (amended): a second run never fires the alias, section, assertion or
   attribute rule, and it gives the first run's output back unless a line
   of that output is still changed by the positional rewrite or a test-case
   start line of it now finds [sourced] within its lookahead window. *)
C1_IdempotentUnlessRetriggered ==
    /\ pass = 2 => last.rule \in {0, 2, 6}
    /\ (pass = 2 /\ pc = "done" /\ ~C1_StillTriggers(lines)) => result = lines

C1_Witness ==
    /\ pass = 2
    /\ pc = "done"
    /\ ~C1_StillTriggers(lines)
    /\ input # lines
    /\ lines # <<>>
    /\ result = lines

(* C2 (as stated): at a tagged test case the lines from the start line
   through the first line on which the brace count, taken from the first
   line holding a '{', is zero or below are dropped, and every other line is
   emitted as if the block were absent. *)
C2_TaggedBlockRemoved ==
    (Scanning /\ Rule(lines, i) = 2 /\ ClosingLines(lines, i) # {}) =>
        LET c == SetMin(ClosingLines(lines, i))
        IN  /\ NextIndex(lines, i) = c + 1
            /\ Emit(lines, i) = <<>>
            /\ process_lines(lines) = process_lines(Without(lines, i, c))

(* [sourced] is on one of the lines n..n+5 and no line strictly between n
   and that line holds a ')' *)
C3_TagInWindow(ls, n) ==
    \E j \in Indices(ls) :
        /\ j >= n
        /\ j <= n + 5
        /\ HasTag(Line(ls, j))
        /\ \A m \in (n + 1)..(j - 1) : ~HasParen(Line(ls, m))

C3_NoTagInSixLines(ls, n) ==
    \A j \in Indices(ls) : (j >= n /\ j <= n + 5) => ~HasTag(Line(ls, j))

(* C3: a test-case start line triggers the block removal exactly when
   [sourced] is on one of its first six lines with no ')' on a line strictly
   between; a test case whose tag comes on its 7th line or later is not
   removed by the rule: its start line is emitted and the scan moves on by
   one line. *)
C3_LookaheadWindow ==
    /\ (Scanning /\ IsTestCaseStart(Line(lines, i))) =>
          ((Rule(lines, i) = 2) <=> C3_TagInWindow(lines, i))
    /\ (last.rule # 0 /\ IsTestCaseStart(Line(lines, last.at))
           /\ C3_NoTagInSixLines(lines, last.at)) =>
          /\ last.rule = 6 \/ IsSourcedAssert(Line(lines, last.at))
          /\ last.rule = 6 =>
                /\ i = last.at + 1
                /\ Len(result) = last.outlen + 1
                /\ result[Len(result)] = Rewrite(Line(lines, last.at))

C3_Witness ==
    /\ last.rule = 6
    /\ IsTestCaseStart(Line(lines, last.at))
    /\ last.at + 6 < Len(lines)
    /\ HasTag(Line(lines, last.at + 6))
    /\ C3_NoTagInSixLines(lines, last.at)
    /\ \A m \in (last.at + 1)..(last.at + 5) : ~HasParen(Line(lines, m))
    /\ result[Len(result)] = Line(lines, last.at)

(* C4: at a sourced alias declaration the lines from that line through the
   first line whose right-trimmed text ends with ';' are dropped, nothing is
   emitted, and the scan resumes at the line after; the two-line alias
   yields an empty output. *)
C4_AliasRemoved ==
    /\ (Scanning /\ IsSourcedAlias(Line(lines, i))) => Rule(lines, i) = 1
    /\ (last.rule = 1 /\ SemiLines(lines, last.at) # {}) =>
          LET e == SetMin(SemiLines(lines, last.at))
          IN  /\ i = e + 1
              /\ Len(result) = last.outlen
              /\ \A d \in last.at..e : d \in dropped
              /\ \A d \in dropped : d <= e
    /\ (pc = "done" /\ pass = 1 /\ input = <<L_alias, L_cont>>) => result = <<>>

C4_Witness ==
    /\ last.rule = 1
    /\ last.at = 0
    /\ i = 2
    /\ input = <<L_alias, L_cont>>
    /\ pass = 1
    /\ pc = "done"
    /\ result = <<>>
    /\ dropped = {0, 1}

(* the positions of the line at which ', false, false,' occurs *)
C5_Occurrences(line) == {p \in 1..Len(line) : MatchAt(line, p, FalseFalse)}

C5_FirstNonWS(line) ==
    SetMin({p \in 1..(Len(line) + 1) : p = Len(line) + 1 \/ line[p] \notin WS})

(* the line as the claim says it is emitted: the first ', false, false,'
   loses its second ' false,'; else a leading 'false, false,' loses its
   ', false'; else the line as it is *)
C5_Expected(line) ==
    IF C5_Occurrences(line) # {}
    THEN LET p == SetMin(C5_Occurrences(line)) IN DeleteToks(line, p + 4, p + 6)
    ELSE LET a == C5_FirstNonWS(line)
         IN  IF MatchAt(line, a, <<"false", ",", " ", "false", ",">>)
             THEN DeleteToks(line, a + 2, a + 4)
             ELSE line

C5_ff_out == <<"make", "<", "Traits", "<", "true", ",", " ", "false", ",", " ", "1", ">", ">", "\n">>
C5_cff_out == <<"false", ",", " ", "Extra", ">", "\n">>
C5_ff2_out == <<"A", ",", " ", "false", ",", " ", "B", ",", " ", "false", ",",
                " ", "false", ",", " ", "C", "\n">>

(* C5: every emitted line is its input line after at most one substitution:
   the first ', false, false,' becomes ', false,' and later ones stay; else a
   leading 'false, false,' becomes 'false,' behind its leading whitespace;
   else the line is unchanged. *)
C5_SingleSubstitution ==
    \A n \in 1..Len(result) :
        LET line == Line(lines, src[n])
        IN  /\ result[n] = C5_Expected(line)
            /\ line = L_ff => result[n] = C5_ff_out
            /\ line = L_cff => result[n] = C5_cff_out
            /\ line = L_ff2 => result[n] = C5_ff2_out

C5_Witness ==
    \E n \in 1..Len(result) :
        /\ Line(lines, src[n]) = L_ff2
        /\ result[n] = C5_ff2_out
        /\ Cardinality(C5_Occurrences(L_ff2)) = 2
        /\ Cardinality(C5_Occurrences(result[n])) = 1

(* the output lines are, in order, images of a subsequence of the input *)
RECURSIVE C6_Embeds(_, _)
C6_Embeds(out, inp) ==
    IF out = <<>> THEN TRUE
    ELSE IF inp = <<>> THEN FALSE
    ELSE IF Head(out) \in {Head(inp), C5_Expected(Head(inp))}
         THEN C6_Embeds(Tail(out), Tail(inp))
         ELSE C6_Embeds(out, Tail(inp))

(* the line matches none of the six rules, wherever it stands *)
C6_MatchesNoRule(line) ==
    /\ ~IsSourcedAlias(line)
    /\ ~IsTestCaseStart(line)
    /\ ~is_sourced_section(line)
    /\ ~IsSourcedAssert(line)
    /\ ~IsSourcedUnused(line)
    /\ C5_Occurrences(line) = {}
    /\ ~StartsFalseFalse(line)

(* C6: each output line comes from a distinct input line at a strictly
   increasing index, every scanned input line is either emitted once or
   dropped (no line is inserted for a removed span), and an emitted line
   that matches no rule is identical to its input line, terminator
   included. *)
C6_OrderPreservingImage ==
    /\ Len(src) = Len(result)
    /\ \A n \in 1..Len(src) : src[n] \in Indices(lines) /\ src[n] \notin dropped
    /\ \A n \in 1..(Len(src) - 1) : src[n] < src[n + 1]
    /\ \A n \in 1..Len(result) :
          /\ result[n] \in {Line(lines, src[n]), C5_Expected(Line(lines, src[n]))}
          /\ C6_MatchesNoRule(Line(lines, src[n])) => result[n] = Line(lines, src[n])
    /\ Len(result) + Cardinality(dropped) = Min(i, Len(lines))
    /\ C6_Embeds(result, lines)

C6_Witness ==
    /\ pc = "done"
    /\ input = <<L_assert, L_noeol>>
    /\ pass = 1
    /\ result = <<L_noeol>>
    /\ src = <<1>>
    /\ dropped = {0}

(* whether rule r triggers at line n of the document *)
C9_Triggers(r, ls, n) ==
    IF r = 1 THEN IsSourcedAlias(Line(ls, n))
    ELSE IF r = 2 THEN IsTestCaseStart(Line(ls, n)) /\ C3_TagInWindow(ls, n)
    ELSE IF r = 3 THEN is_sourced_section(Line(ls, n))
    ELSE IF r = 4 THEN IsSourcedAssert(Line(ls, n))
    ELSE IF r = 5 THEN IsSourcedUnused(Line(ls, n))
    ELSE TRUE

(* C9: the rule applied at a scan position is the first, in the order
   alias, test case, section, assertion, attribute, rewrite, that triggers
   there, and it alone is applied; a removal emits nothing and the scan
   resumes past the removed span, so no removed line is emitted or starts a
   span of its own. *)
C9_FirstMatchWins ==
    /\ last.rule # 0 =>
          /\ last.rule = SetMin({r \in 1..6 : C9_Triggers(r, lines, last.at)})
          /\ i = last.next
          /\ last.rule \in 1..5 =>
                /\ Len(result) = last.outlen
                /\ \A d \in last.at..(Min(i, Len(lines)) - 1) : d \in dropped
          /\ last.rule = 6 =>
                /\ Len(result) = last.outlen + 1
                /\ i = last.at + 1
                /\ src[Len(src)] = last.at
    /\ \A d \in dropped : d < i
    /\ \A n \in 1..Len(src) : src[n] \notin dropped /\ src[n] < i

C9_Witness ==
    /\ last.rule = 3
    /\ Line(lines, last.at) = L_sectionAssert
    /\ C9_Triggers(4, lines, last.at)
    /\ i > last.at + 1
    /\ \E d \in dropped : d > last.at /\ Line(lines, d) = L_ff
    /\ Len(result) = last.outlen

(* the span triggered at line n by rule r has no terminator *)
C10_Unterminated(r, ls, n) ==
    IF r = 1 THEN SemiLines(ls, n) = {}
    ELSE IF r \in {2, 3} THEN ClosingLines(ls, n) = {}
    ELSE FALSE

(* C10: every iteration moves the scan forward, so process_lines ends on
   every document; when a triggered span has no terminator every line from
   the trigger line to the end is dropped and nothing more is emitted. *)
C10_TerminatesOnOpenSpan ==
    /\ Scanning => NextIndex(lines, i) > i
    /\ i <= Len(lines) + 1
    /\ pc = "scan" /\ ~Scanning => ENABLED Finish
    /\ (last.rule # 0 /\ C10_Unterminated(last.rule, lines, last.at)) =>
          /\ i >= Len(lines)
          /\ Len(result) = last.outlen
          /\ \A d \in last.at..(Len(lines) - 1) : d \in dropped
          /\ \A n \in 1..Len(src) : src[n] < last.at

C10_Witness ==
    /\ pc = "done"
    /\ last.rule = 2
    /\ C10_Unterminated(2, lines, last.at)
    /\ BraceLines(lines, last.at) # {}
    /\ last.at > 0
    /\ last.at + 2 < Len(lines)
    /\ result # <<>>

(* the content after the transformation *)
C7_Transformed(content) == join(process_lines(splitlines(content)))

(* no line of the content matches a trigger pattern *)
C7_NoTrigger(content) ==
    \A n \in 1..Len(splitlines(content)) : C6_MatchesNoRule(splitlines(content)[n])

(* C7: process_file writes the file exactly when the transformed content
   differs and preview mode is off; what it returns does not depend on
   preview mode; a file with no trigger pattern is reported unchanged and is
   not written. *)
C7_WriteIffChanged ==
    /\ \A n \in 1..Len(calls) :
          LET c == calls[n]
              t == C7_Transformed(c.before)
          IN  /\ c.wrote <=> (t # c.before /\ ~DryRun(argv))
              /\ c.modified <=> (t # c.before)
              /\ c.after = IF c.wrote THEN t ELSE c.before
              /\ C7_NoTrigger(c.before) => (~c.modified /\ ~c.wrote /\ c.after = c.before)
    /\ \A p \in Paths :
          fs[p].kind = "file" =>
              /\ process_file(fs, p, TRUE).modified = process_file(fs, p, FALSE).modified
              /\ process_file(fs, p, TRUE).fs = fs
              /\ process_file(fs, p, FALSE).wrote = process_file(fs, p, FALSE).modified
    /\ \A p \in Paths :
          (\A n \in 1..Len(calls) : calls[n].path = p => ~calls[n].wrote) => fs[p] = fs0[p]

C7_Witness ==
    /\ ~DryRun(argv)
    /\ \E m, n \in 1..Len(calls) :
          /\ calls[m].wrote
          /\ calls[m].after # calls[m].before
          /\ fs[calls[m].path].content # fs0[calls[m].path].content
          /\ C7_NoTrigger(calls[n].before)
          /\ ~calls[n].wrote
          /\ ~calls[n].modified

C8_Paths == PathsOf(argv)

(* the indices of the given paths, in order *)
C8_Order == [n \in 1..Len(C8_Paths) |-> n - 1]

C8_Kind(n) == fs0[Line(C8_Paths, n)].kind

C8_AllReadable == \A n \in Indices(C8_Paths) : C8_Kind(n) # "unreadable"

(* the paths processed, by index, in the order of the calls *)
C8_Processed == [n \in 1..Len(calls) |-> calls[n].at]

C8_ChangedCalls ==
    Cardinality({n \in 1..Len(calls) : C7_Transformed(calls[n].before) # calls[n].before})

(* the run went through every path: each missing one reported as skipped,
   each existing one processed once, in order, the count reported, status 0 *)
C8_CompleteRun ==
    /\ status = "0"
    /\ C8_Processed = SelectSeq(C8_Order, LAMBDA n : C8_Kind(n) # "missing")
    /\ Len(log) = Len(C8_Paths) + 1
    /\ \A n \in Indices(C8_Paths) :
          /\ log[n + 1][2] = Line(C8_Paths, n)
          /\ (log[n + 1][1] = "SKIP") <=> (C8_Kind(n) = "missing")
    /\ log[Len(log)] = <<"Total", C8_ChangedCalls, Len(C8_Paths)>>

(* C8 (as stated): with at least one path, missing paths are skipped, every
   existing path is processed once in order, the changed count is the number
   of processed files whose content changed and the status is zero; with no
   path the status is non-zero and no file is processed. *)
C8_MissingPathsOnlySkip ==
    pc = "exit" =>
        /\ C8_Paths # <<>> => C8_CompleteRun
        /\ C8_Paths = <<>> => (status = "1" /\ calls = <<>> /\ fs = fs0)

(* C8 (amended): the same, provided every existing path can be read; a path
   that exists and cannot be read ends the run there with a non-zero status,
   the paths after it unprocessed. *)
C8_MissingPathsOnlySkipIfReadable ==
    pc = "exit" =>
        /\ (C8_Paths # <<>> /\ C8_AllReadable) => C8_CompleteRun
        /\ (C8_Paths # <<>> /\ ~C8_AllReadable) =>
              LET u == SetMin({n \in Indices(C8_Paths) : C8_Kind(n) = "unreadable"})
              IN  /\ status = "1"
                  /\ C8_Processed =
                        SelectSeq(C8_Order, LAMBDA n : n < u /\ C8_Kind(n) = "file")
        /\ C8_Paths = <<>> => (status = "1" /\ calls = <<>> /\ fs = fs0)

C8_Witness ==
    /\ pc = "exit"
    /\ status = "0"
    /\ Len(C8_Paths) = 2
    /\ C8_Kind(0) = "missing"
    /\ C8_Kind(1) = "file"
    /\ C8_Processed = <<1>>
    /\ changed = 1
    /\ log[1][1] = "SKIP"

====
